---------------------------- MODULE Spec2Model ----------------------------
(***************************************************************************)
(* Model of eolearn/core/feature_types.py: the FeatureType enumeration,    *)
(* construction of a member from a string, has_value and the               *)
(* classification methods.  A state is the most recent call made by a      *)
(* client: which operation, on which argument / receiver, what it returned *)
(* and what it raised.                                                     *)
(***************************************************************************)
EXTENDS Integers, Sequences, FiniteSets, TLC

VARIABLES op, value, self, ret, exc

vars == <<op, value, self, ret, exc>>

---------------------------------------------------------------------------
(* Python values returned by the calls.  Records of different shapes are   *)
(* different values, as an int, a bool, None and a type object are.        *)

PyBool(b) == [t |-> "bool", b |-> b]
PyInt(n)  == [t |-> "int", n |-> n]
PyNone    == [t |-> "NoneType"]
PyType(n) == [t |-> "type", name |-> n]

\* the builtin types returned by type()
list   == PyType("list")
object == PyType("object")
dict   == PyType("dict")

\* outcome of a call: it returns a value or raises
Return(v) == [ret |-> v, exc |-> "None"]
Raise(e)  == [ret |-> [t |-> "raised"], exc |-> e]

\* no receiver at hand (no construction has succeeded)
NoMember == [name |-> "", value |-> ""]
NoArg    == "<none>"

---------------------------------------------------------------------------
(* The enumeration: members in definition order, each a name and a value.  *)

Member(n, v) == [name |-> n, value |-> v]

DATA            == Member("DATA", "data")
MASK            == Member("MASK", "mask")
SCALAR          == Member("SCALAR", "scalar")
LABEL           == Member("LABEL", "label")
VECTOR          == Member("VECTOR", "vector")
DATA_TIMELESS   == Member("DATA_TIMELESS", "data_timeless")
MASK_TIMELESS   == Member("MASK_TIMELESS", "mask_timeless")
SCALAR_TIMELESS == Member("SCALAR_TIMELESS", "scalar_timeless")
LABEL_TIMELESS  == Member("LABEL_TIMELESS", "label_timeless")
VECTOR_TIMELESS == Member("VECTOR_TIMELESS", "vector_timeless")
META_INFO       == Member("META_INFO", "meta_info")
BBOX            == Member("BBOX", "bbox")
TIMESTAMP       == Member("TIMESTAMP", "timestamp")

\* the class body, in definition order (the order `for item in cls` follows)
FeatureType ==
    <<DATA, MASK, SCALAR, LABEL, VECTOR, DATA_TIMELESS, MASK_TIMELESS,
      SCALAR_TIMELESS, LABEL_TIMELESS, VECTOR_TIMELESS, META_INFO, BBOX,
      TIMESTAMP>>

\* Enum: a later member with the value of an earlier one is an alias of it,
\* so iteration and lookup see the first definition of each value only
Canonical(i) == \A j \in 1..(i - 1) : FeatureType[j].value # FeatureType[i].value

Members == {FeatureType[i] : i \in {k \in 1..Len(FeatureType) : Canonical(k)}}

---------------------------------------------------------------------------
(* Character helpers for the str methods used by the mutants and inputs.   *)

LowerChars == "abcdefghijklmnopqrstuvwxyz"
UpperChars == "ABCDEFGHIJKLMNOPQRSTUVWXYZ"

CharAt(s, i) == SubSeq(s, i, i)

MapChar(c, from, to) ==
    IF \E k \in 1..Len(from) : CharAt(from, k) = c
    THEN CharAt(to, CHOOSE k \in 1..Len(from) : CharAt(from, k) = c)
    ELSE c

RECURSIVE MapStr(_, _, _)
MapStr(s, from, to) ==
    IF Len(s) = 0 THEN ""
    ELSE MapChar(CharAt(s, 1), from, to) \o MapStr(SubSeq(s, 2, Len(s)), from, to)

Upper(s) == MapStr(s, LowerChars, UpperChars)
Lower(s) == MapStr(s, UpperChars, LowerChars)

---------------------------------------------------------------------------
(* has_value *)

\* a case-insensitive comparison
has_value_nocase(v) == \E item \in Members : Lower(v) = item.value

has_value(v) == \E item \in Members : v = item.value

---------------------------------------------------------------------------
(* FeatureType(value): Enum's lookup of a member by value *)

\* a lookup that normalises the case of its argument first
Construct_nocase(v) ==
    IF \E m \in Members : m.value = Lower(v)
    THEN Return(CHOOSE m \in Members : m.value = Lower(v))
    ELSE Raise("ValueError")

Construct(v) ==
    IF \E m \in Members : m.value = v
    THEN Return(CHOOSE m \in Members : m.value = v)
    ELSE Raise("ValueError")

---------------------------------------------------------------------------
(* classification methods *)

is_spatial_noVT(m) ==
    m \in {DATA, MASK, VECTOR, DATA_TIMELESS, MASK_TIMELESS}

is_spatial(m) ==
    m \in {DATA, MASK, VECTOR, DATA_TIMELESS, MASK_TIMELESS, VECTOR_TIMELESS}

is_time_dependent_ts(m) ==
    m \in {DATA, MASK, SCALAR, LABEL, VECTOR, TIMESTAMP}

is_time_dependent(m) ==
    m \in {DATA, MASK, SCALAR, LABEL, VECTOR}

is_discrete_noLT(m) ==
    m \in {MASK, MASK_TIMELESS, LABEL}

is_discrete(m) ==
    m \in {MASK, MASK_TIMELESS, LABEL, LABEL_TIMELESS}

is_vector_one(m) ==
    m \in {VECTOR}

is_vector(m) ==
    m \in {VECTOR, VECTOR_TIMELESS}

has_dict_meta(m) ==
    m \notin {TIMESTAMP, BBOX, META_INFO}

has_dict(m) ==
    m \notin {TIMESTAMP, BBOX}

contains_ndarrays_vec(m) ==
    m \in {DATA, MASK, SCALAR, LABEL, VECTOR,
           DATA_TIMELESS, MASK_TIMELESS, SCALAR_TIMELESS, LABEL_TIMELESS}

contains_ndarrays(m) ==
    m \in {DATA, MASK, SCALAR, LABEL,
           DATA_TIMELESS, MASK_TIMELESS, SCALAR_TIMELESS, LABEL_TIMELESS}

\* the dict literal of ndim: a finite map from members to ranks
NdimTable ==
    (DATA :> 4) @@ (MASK :> 4) @@ (SCALAR :> 2) @@ (LABEL :> 2) @@
    (DATA_TIMELESS :> 3) @@ (MASK_TIMELESS :> 3) @@
    (SCALAR_TIMELESS :> 1) @@ (LABEL_TIMELESS :> 1)

\* d[k]: the value, or KeyError when k is not a key
GetItem(d, k) == IF k \in DOMAIN d THEN Return(PyInt(d[k])) ELSE Raise("KeyError")

\* ranks of the timeless types entered one too low
ndim_swapped(m) ==
    IF contains_ndarrays(m)
    THEN GetItem((DATA :> 4) @@ (MASK :> 4) @@ (SCALAR :> 2) @@ (LABEL :> 2) @@
                 (DATA_TIMELESS :> 2) @@ (MASK_TIMELESS :> 2) @@
                 (SCALAR_TIMELESS :> 1) @@ (LABEL_TIMELESS :> 1), m)
    ELSE Return(PyNone)

ndim(m) ==
    IF contains_ndarrays(m)
    THEN GetItem(NdimTable, m)
    ELSE Return(PyNone)

\* the two special cases returned the wrong way round
type_swapped(m) ==
    IF m = TIMESTAMP THEN object
    ELSE IF m = BBOX THEN list
    ELSE dict

type(m) ==
    IF m = TIMESTAMP THEN list
    ELSE IF m = BBOX THEN object
    ELSE dict

---------------------------------------------------------------------------
(* Inputs offered to has_value and to the constructor.                     *)

MaxPad == 1

Identifiers == {FeatureType[i].value : i \in 1..Len(FeatureType)}

RECURSIVE Pad(_, _)
Pad(s, n) == IF n = 0 THEN s ELSE Pad(s, n - 1) \o "s"

Prefixes(s) == {SubSeq(s, 1, k) : k \in 0..Len(s)}

Inputs ==
    Identifiers
    \cup UNION {Prefixes(s) : s \in Identifiers}
    \cup {Upper(s) : s \in Identifiers}
    \cup {Pad(s, n) : s \in Identifiers, n \in 1..MaxPad}
    \cup {"foo", "Data", "data_", "timeless", "FeatureType.DATA"}

---------------------------------------------------------------------------
(* The calls *)

Init ==
    /\ op = "init"
    /\ value = NoArg
    /\ self = NoMember
    /\ ret = PyNone
    /\ exc = "None"

\* FeatureType.has_value(v)
HasValue(v) ==
    /\ op' = "has_value"
    /\ value' = v
    /\ ret' = PyBool(has_value(v))
    /\ exc' = "None"
    /\ UNCHANGED self

\* FeatureType(v): on success the member becomes the receiver of later calls
New(v) ==
    LET r == Construct(v) IN
    /\ op' = "FeatureType"
    /\ value' = v
    /\ ret' = r.ret
    /\ exc' = r.exc
    /\ self' = IF r.exc = "None" THEN r.ret ELSE NoMember

\* self.<predicate>()
CallBool(name, result) ==
    /\ self # NoMember
    /\ op' = name
    /\ ret' = PyBool(result)
    /\ exc' = "None"
    /\ UNCHANGED <<value, self>>

IsSpatial        == CallBool("is_spatial", is_spatial(self))
IsTimeDependent  == CallBool("is_time_dependent", is_time_dependent(self))
IsDiscrete       == CallBool("is_discrete", is_discrete(self))
IsVector         == CallBool("is_vector", is_vector(self))
HasDict          == CallBool("has_dict", has_dict(self))
ContainsNdarrays == CallBool("contains_ndarrays", contains_ndarrays(self))

Ndim ==
    /\ self # NoMember
    /\ op' = "ndim"
    /\ ret' = ndim(self).ret
    /\ exc' = ndim(self).exc
    /\ UNCHANGED <<value, self>>

Type ==
    /\ self # NoMember
    /\ op' = "type"
    /\ ret' = type(self)
    /\ exc' = "None"
    /\ UNCHANGED <<value, self>>

Next ==
    \/ \E v \in Inputs : HasValue(v)
    \/ \E v \in Inputs : New(v)
    \/ IsSpatial
    \/ IsTimeDependent
    \/ IsDiscrete
    \/ IsVector
    \/ HasDict
    \/ ContainsNdarrays
    \/ Ndim
    \/ Type

Spec == Init /\ [][Next]_vars

---------------------------------------------------------------------------
(* Vocabulary of the properties: the members by name, the identifiers.     *)

Reserved13 ==
    {"data", "mask", "scalar", "label", "vector", "data_timeless",
     "mask_timeless", "scalar_timeless", "label_timeless", "vector_timeless",
     "meta_info", "bbox", "timestamp"}

QueryOps ==
    {"is_spatial", "is_time_dependent", "is_discrete", "is_vector", "has_dict",
     "contains_ndarrays", "ndim", "type"}

Named(names) == {m \in Members : m.name \in names}

\* the member named <name>_TIMELESS
Counterpart(m) == CHOOSE c \in Members : c.name = m.name \o "_TIMELESS"

\* C1: has_value(identifier) returns true exactly when identifier is one of
\* the 13 reserved identifiers, returns false for every other string and
\* never raises.
C1_HasValueExact ==
    op = "has_value" =>
        /\ exc = "None"
        /\ ret = PyBool(value \in Reserved13)

C1_Witness ==
    /\ op = "has_value"
    /\ value = "DATA"
    /\ ret = PyBool(FALSE)

\* C2: ndim() returns a rank exactly for the members for which
\* contains_ndarrays() is true: DATA=4, MASK=4, SCALAR=2, LABEL=2,
\* DATA_TIMELESS=3, MASK_TIMELESS=3, SCALAR_TIMELESS=1, LABEL_TIMELESS=1;
\* the other five return None, and the lookup never raises.
C2_NdimIffArrays ==
    /\ op = "contains_ndarrays" =>
           ret = PyBool(self.name \in {"DATA", "MASK", "SCALAR", "LABEL",
                                       "DATA_TIMELESS", "MASK_TIMELESS",
                                       "SCALAR_TIMELESS", "LABEL_TIMELESS"})
    /\ op = "ndim" =>
        /\ exc = "None"
        /\ (ret.t = "int") <=> contains_ndarrays(self)
        /\ self.name \in {"DATA", "MASK"} => ret = PyInt(4)
        /\ self.name \in {"SCALAR", "LABEL"} => ret = PyInt(2)
        /\ self.name \in {"DATA_TIMELESS", "MASK_TIMELESS"} => ret = PyInt(3)
        /\ self.name \in {"SCALAR_TIMELESS", "LABEL_TIMELESS"} => ret = PyInt(1)
        /\ self.name \in {"VECTOR", "VECTOR_TIMELESS", "META_INFO", "BBOX",
                          "TIMESTAMP"} => ret = PyNone

C2_Witness ==
    /\ op = "ndim"
    /\ self = VECTOR
    /\ ret = PyNone
    /\ exc = "None"

\* C3: type() returns list only for TIMESTAMP, object only for BBOX and
\* dict for each of the other 11 members.
C3_TypeKinds ==
    /\ op = "type" =>
        /\ (ret = list) <=> (self.name = "TIMESTAMP")
        /\ (ret = object) <=> (self.name = "BBOX")
        /\ (ret = dict) <=> (self.name \notin {"TIMESTAMP", "BBOX"})

C3_Witness ==
    /\ op = "type"
    /\ self = BBOX
    /\ ret = object

\* C4: constructing from a reserved identifier yields the single member
\* with that identifier (identifiers are pairwise distinct); constructing
\* from any other string raises and yields no member; no classification
\* query on a constructed member raises.
C4_Construction ==
    /\ op = "FeatureType" /\ value \in Reserved13 =>
        /\ exc = "None"
        /\ self = ret
        /\ ret.value = value
        /\ \A i \in 1..Len(FeatureType) :
               FeatureType[i].value = value => FeatureType[i] = ret
    /\ op = "FeatureType" /\ value \notin Reserved13 =>
        /\ exc = "ValueError"
        /\ self = NoMember
        /\ ret \notin Members
    /\ op \in QueryOps => self \in Members /\ exc = "None"

C4_Witness ==
    /\ op = "FeatureType"
    /\ value = "MASK"
    /\ exc = "ValueError"
    /\ self = NoMember

\* C5: is_spatial() is true for exactly DATA, MASK, VECTOR, DATA_TIMELESS,
\* MASK_TIMELESS and VECTOR_TIMELESS.
C5_Spatial ==
    /\ op = "is_spatial" =>
           ret = PyBool(self.name \in {"DATA", "MASK", "VECTOR", "DATA_TIMELESS",
                                       "MASK_TIMELESS", "VECTOR_TIMELESS"})

C5_Witness ==
    /\ op = "is_spatial"
    /\ self = VECTOR_TIMELESS
    /\ ret = PyBool(TRUE)

\* C6: is_time_dependent() is true for exactly DATA, MASK, SCALAR, LABEL and
\* VECTOR; false for every *_TIMELESS member, TIMESTAMP, BBOX and META_INFO.
C6_TimeDependent ==
    /\ op = "is_time_dependent" =>
           ret = PyBool(self.name \in {"DATA", "MASK", "SCALAR", "LABEL", "VECTOR"})

C6_Witness ==
    /\ op = "is_time_dependent"
    /\ self = TIMESTAMP
    /\ ret = PyBool(FALSE)

\* C7: is_discrete() is true for exactly MASK, MASK_TIMELESS, LABEL and
\* LABEL_TIMELESS.
C7_Discrete ==
    /\ op = "is_discrete" =>
           ret = PyBool(self.name \in {"MASK", "MASK_TIMELESS", "LABEL",
                                       "LABEL_TIMELESS"})

C7_Witness ==
    /\ op = "is_discrete"
    /\ self = LABEL_TIMELESS
    /\ ret = PyBool(TRUE)

\* C8: has_dict() is false for exactly TIMESTAMP and BBOX, hence true
\* exactly for the members whose type() is dict.
C8_HasDict ==
    /\ op = "has_dict" =>
        /\ ret = PyBool(self.name \notin {"TIMESTAMP", "BBOX"})
        /\ ret = PyBool(type(self) = dict)

C8_Witness ==
    /\ op = "has_dict"
    /\ self = META_INFO
    /\ ret = PyBool(TRUE)

\* C9: is_vector() is true for exactly VECTOR and VECTOR_TIMELESS.
C9_Vector ==
    /\ op = "is_vector" =>
           ret = PyBool(self.name \in {"VECTOR", "VECTOR_TIMELESS"})

C9_Witness ==
    /\ op = "is_vector"
    /\ self = VECTOR_TIMELESS
    /\ ret = PyBool(TRUE)

\* C10: for every member holding ndarrays, ndim() is 1 plus 2 if spatial
\* plus 1 if time-dependent; so a time-dependent one has rank one more than
\* its *_TIMELESS counterpart.
C10_RankFromAxes ==
    op = "ndim" /\ contains_ndarrays(self) =>
        /\ ret = PyInt(1 + (IF is_spatial(self) THEN 2 ELSE 0)
                         + (IF is_time_dependent(self) THEN 1 ELSE 0))
        /\ is_time_dependent(self) =>
               ret = PyInt(ndim(Counterpart(self)).ret.n + 1)

C10_Witness ==
    /\ op = "ndim"
    /\ self = MASK
    /\ ret = PyInt(4)

=============================================================================
